---- MODULE Spec2Model ----
(***************************************************************************)
(* A model of the fossil-jellyfish packaging recipe (conanfile.py) and of  *)
(* the test-source lister (code/tests/tools/wildcard.py).                  *)
(*                                                                         *)
(* The recipe is a class whose methods an external driver calls; every     *)
(* method is one action.  External tools (toolchain generator, meson,      *)
(* git) either work or are broken for the whole run; which of them are     *)
(* broken is chosen in Init.  File names are tuples of characters, so that *)
(* suffix matching and lexicographic order are computed, not assumed.      *)
(***************************************************************************)
EXTENDS Integers, Sequences, FiniteSets, TLC

VARIABLES
    descriptor,   \* the class attributes of FossilJellyfishConan
    folders,      \* self.folders: source and build
    cpp_info,     \* self.cpp_info: libs and includedirs
    toolchain,    \* TRUE once the toolchain files were generated
    builddir,     \* state of the build directory: absent, configured, built
    cloneDir,     \* state of the clone target directory: absent, nonempty
    srcDir,       \* files of code/logic/fossil/ai: name -> content
    installPlan,  \* headers the project's install rules place: name -> content
    pkgInclude,   \* files of <package_folder>/include/fossil/ai: name -> content
    pkgLib,       \* TRUE once the library was installed in <package_folder>
    broken,       \* the external tools that fail in this run
    lastOp,       \* the lifecycle method called last
    result,       \* how that call ended: ok, or the exception it raised
    calls,        \* the external calls that call issued, in order
    fetched,      \* every fetch command issued in this run
    completed,    \* the lifecycle methods that have returned normally
    failed,       \* TRUE once a lifecycle method has raised
    again,        \* TRUE when the call before the last was the same method, returning normally
    fs,           \* the lister's filesystem: a set of paths
    stdout,       \* the lines the lister printed
    pc            \* the lister's position: start, done

orchVars == <<descriptor, folders, cpp_info, toolchain, builddir, cloneDir,
              srcDir, installPlan, pkgInclude, pkgLib, broken, lastOp,
              result, calls, fetched, completed, failed, again>>
listerVars == <<fs, stdout, pc>>
vars == <<orchVars, listerVars>>

----------------------------------------------------------------------------
(* Bounds of the model *)

\* at most this many external tools are broken in one run
MaxBroken == 1

----------------------------------------------------------------------------
(* Characters, names and paths *)

\* code points of the characters the model's names use
Ord(ch) ==
    CASE ch = "." -> 46
      [] ch = "/" -> 47
      [] ch = "a" -> 97
      [] ch = "b" -> 98
      [] ch = "c" -> 99
      [] ch = "d" -> 100
      [] ch = "e" -> 101
      [] ch = "h" -> 104
      [] ch = "i" -> 105
      [] ch = "p" -> 112
      [] ch = "s" -> 115
      [] ch = "t" -> 116
      [] ch = "u" -> 117
      [] ch = "x" -> 120

\* Python's str.__lt__: lexicographic by code point, a proper prefix first
RECURSIVE StrLess(_, _)
StrLess(s, t) ==
    IF t = <<>> THEN FALSE
    ELSE IF s = <<>> THEN TRUE
    ELSE IF Ord(Head(s)) # Ord(Head(t)) THEN Ord(Head(s)) < Ord(Head(t))
    ELSE StrLess(Tail(s), Tail(t))

EndsWith(s, suffix) ==
    /\ Len(s) >= Len(suffix)
    /\ SubSeq(s, Len(s) - Len(suffix) + 1, Len(s)) = suffix

\* all orderings of a finite set, as sequences without repetition
Perms(S) ==
    { q \in [1..Cardinality(S) -> S] : \A i, j \in 1..Cardinality(S) : q[i] = q[j] => i = j }

----------------------------------------------------------------------------
(* The recipe: class attributes *)

\* FossilJellyfishConan's class attributes
Descriptor0 ==
    [ name            |-> "fossil_jellyfish",
      version         |-> "0.1.4",
      license         |-> "MPL-2.0",
      author          |-> "Fossil Logic <michaelbrockus@gmail.com>",
      url             |-> "https://github.com/fossillogic/fossil-jellyfish",
      description     |-> "Fossil Jellyfish is a lightweight, portable Truthful Intelligence and AI library written in pure C with zero external dependencies.",
      topics          |-> <<"c", "ti", "chat", "nlp", "cpp", "meson", "conan-recipe", "mesonbuild", "ninja-build">>,
      settings        |-> <<"os", "compiler", "build_type", "arch">>,
      options         |-> [shared |-> {TRUE, FALSE}],
      default_options |-> [shared |-> FALSE] ]

\* the lifecycle methods, in the order the driver calls them
Steps == <<"layout", "generate", "source", "build", "package", "package_info">>

StepSet == { Steps[i] : i \in 1..Len(Steps) }

\* the external tools a method calls
Tools == {"MesonToolchain.generate", "meson.configure", "meson.build",
          "meson.install", "git clone"}

----------------------------------------------------------------------------
(* Files *)

HeaderA == <<"a", ".", "h">>
HeaderB == <<"b", ".", "h">>
NotHeader == <<"a", ".", "c">>
StaleHeader == <<"x", ".", "h">>

\* a directory: a function from the names of its files to their contents
Dirs(names, contents) ==
    UNION { [S -> contents] : S \in SUBSET names }

\* the pattern "*.h" of copy(): the name ends in .h
MatchesHeaderPattern(name) == EndsWith(name, <<".", "h">>)

\* meson.install(): the planned files are written into dst, replacing a file
\* of the same name
Install(plan, dst) ==
    [ n \in DOMAIN dst \cup DOMAIN plan |->
        IF n \in DOMAIN plan THEN plan[n] ELSE dst[n] ]

\* a copy that writes into dst/ai once dst exists (cp -r semantics)
CopyHeadersNested(src, dst) ==
    LET hs == { n \in DOMAIN src : MatchesHeaderPattern(n) }
        at(n) == IF DOMAIN dst = {} THEN n ELSE <<"a", "i", "/">> \o n
        new == { at(n) : n \in hs }
    IN  [ m \in DOMAIN dst \cup new |->
            IF m \in new THEN src[CHOOSE n \in hs : at(n) = m] ELSE dst[m] ]

\* a copy with the pattern "*.c"
CopyHeadersWrongPattern(src, dst) ==
    LET hs == { n \in DOMAIN src : EndsWith(n, <<".", "c">>) }
    IN  [ n \in DOMAIN dst \cup hs |-> IF n \in hs THEN src[n] ELSE dst[n] ]

\* a copy that leaves a file already in dst as it is
CopyHeadersNoOverwrite(src, dst) ==
    LET hs == { n \in DOMAIN src : MatchesHeaderPattern(n) }
    IN  [ n \in DOMAIN dst \cup hs |-> IF n \in DOMAIN dst THEN dst[n] ELSE src[n] ]

\* copy(self, "*.h", src=..., dst=...): every file of src matching the
\* pattern is written into dst under its name, replacing a file of that name
CopyHeaders(src, dst) ==
    LET hs == { n \in DOMAIN src : MatchesHeaderPattern(n) }
    IN  [ n \in DOMAIN dst \cup hs |-> IF n \in hs THEN src[n] ELSE dst[n] ]

----------------------------------------------------------------------------
(* Fetch commands *)

\* the command of the first definition of source(), which the second shadows
ShallowCloneCmd(d) == "git clone --branch v" \o d.version \o " --depth 1 " \o d.url

\* the command of the second definition of source(), the one the class keeps
CloneCmd(d) == "git clone --branch v" \o d.version \o " " \o d.url

\* a source() that runs both definitions' commands
SourceCmdsBothDefinitions(d) == <<ShallowCloneCmd(d), CloneCmd(d)>>

\* the commands source() runs: the class body binds the name to the second
\* definition only
SourceCmds(d) == <<CloneCmd(d)>>

----------------------------------------------------------------------------
(* Initial state *)

OrchInitFixed ==
    /\ descriptor = Descriptor0
    /\ cpp_info = [libs |-> <<>>, includedirs |-> <<"include">>]
    /\ toolchain = FALSE
    /\ builddir = "absent"
    /\ cloneDir = "absent"
    /\ pkgLib = FALSE
    /\ lastOp = "none"
    /\ result = "none"
    /\ calls = <<>>
    /\ fetched = {}
    /\ completed = {}
    /\ failed = FALSE
    /\ again = FALSE

ListerIdle ==
    /\ fs = {}
    /\ stdout = <<>>
    /\ pc = "idle"

Init ==
    /\ OrchInitFixed
    /\ folders \in { [source |-> "", build |-> ""],
                     [source |-> "src", build |-> "build"] }
    /\ srcDir \in Dirs({HeaderA, HeaderB, NotHeader}, {"source text"})
    /\ installPlan \in Dirs({HeaderA, HeaderB}, {"installed text"})
    /\ pkgInclude \in Dirs({HeaderA, StaleHeader}, {"old text"})
    /\ broken \in { B \in SUBSET Tools : Cardinality(B) <= MaxBroken }
    /\ ListerIdle

----------------------------------------------------------------------------
(* The lifecycle methods *)

\* what every call records: the method, its outcome, its external calls
Called(op, res, cs) ==
    /\ lastOp' = op
    /\ result' = res
    /\ calls' = cs
    /\ completed' = IF res = "ok" THEN completed \cup {op} ELSE completed
    /\ failed' = (failed \/ res # "ok")
    /\ again' = (lastOp = op /\ result = "ok")

\* a layout() that sets only the source folder
LayoutSourceOnly == [folders EXCEPT !.source = "."]

\* the folders layout() leaves
LayoutFolders == [source |-> ".", build |-> "builddir"]

Layout ==
    /\ folders' = LayoutFolders
    /\ Called("layout", "ok", <<>>)
    /\ UNCHANGED <<descriptor, cpp_info, toolchain, builddir, cloneDir, srcDir,
                   installPlan, pkgInclude, pkgLib, broken, fetched>>

Generate ==
    /\ IF "MesonToolchain.generate" \in broken
         THEN /\ Called("generate", "ConanException", <<"MesonToolchain.generate">>)
              /\ UNCHANGED toolchain
         ELSE /\ toolchain' = TRUE
              /\ Called("generate", "ok", <<"MesonToolchain.generate">>)
    /\ UNCHANGED <<descriptor, folders, cpp_info, builddir, cloneDir, srcDir,
                   installPlan, pkgInclude, pkgLib, broken, fetched>>

\* the build directory after meson.configure() succeeded
Configured(b) == IF b = "absent" THEN "configured" ELSE b

\* a build() that goes on to meson.build() after meson.configure() failed
BuildContinuesAfterConfigureFailure ==
    /\ IF "meson.build" \in broken \/ "meson.configure" \in broken
         THEN /\ builddir' = IF "meson.configure" \in broken
                                THEN builddir ELSE Configured(builddir)
              /\ Called("build", "ConanException", <<"meson.configure", "meson.build">>)
         ELSE /\ builddir' = "built"
              /\ Called("build", "ok", <<"meson.configure", "meson.build">>)
    /\ UNCHANGED <<descriptor, folders, cpp_info, toolchain, cloneDir, srcDir,
                   installPlan, pkgInclude, pkgLib, broken, fetched>>

Build ==
    /\ IF "meson.configure" \in broken
         THEN /\ Called("build", "ConanException", <<"meson.configure">>)
              /\ UNCHANGED builddir
         ELSE IF "meson.build" \in broken
         THEN /\ builddir' = Configured(builddir)
              /\ Called("build", "ConanException", <<"meson.configure", "meson.build">>)
         ELSE /\ builddir' = "built"
              /\ Called("build", "ok", <<"meson.configure", "meson.build">>)
    /\ UNCHANGED <<descriptor, folders, cpp_info, toolchain, cloneDir, srcDir,
                   installPlan, pkgInclude, pkgLib, broken, fetched>>

\* a source() that first rewrites self.version to the tag name
SourceRewritesVersion ==
    LET d == [descriptor EXCEPT !.version = "v" \o Descriptor0.version]
        cmd == "git clone --branch " \o d.version \o " " \o d.url
        fails == "git clone" \in broken \/ cloneDir = "nonempty"
    IN  /\ descriptor' = d
        /\ fetched' = fetched \cup {cmd}
        /\ cloneDir' = IF fails THEN cloneDir ELSE "nonempty"
        /\ Called("source", IF fails THEN "ConanException" ELSE "ok", <<cmd>>)
        /\ UNCHANGED <<folders, cpp_info, toolchain, builddir, srcDir,
                       installPlan, pkgInclude, pkgLib, broken>>

\* self.run() raises when its command exits non-zero, and a method ends at
\* the first command that raises: git clone exits non-zero when it is broken
\* or when its target directory is not empty, as it is after a clone that
\* succeeded
Source ==
    LET cmds == SourceCmds(descriptor)
        fails == "git clone" \in broken \/ cloneDir = "nonempty"
        run == IF fails THEN <<cmds[1]>> ELSE cmds
    IN  /\ fetched' = fetched \cup { run[i] : i \in 1..Len(run) }
        /\ IF fails \/ Len(cmds) > 1
             THEN /\ Called("source", "ConanException", run)
                  /\ cloneDir' = IF fails THEN cloneDir ELSE "nonempty"
             ELSE /\ cloneDir' = "nonempty"
                  /\ Called("source", "ok", run)
        /\ UNCHANGED <<descriptor, folders, cpp_info, toolchain, builddir, srcDir,
                       installPlan, pkgInclude, pkgLib, broken>>

Package ==
    /\ IF "meson.install" \in broken
         THEN /\ Called("package", "ConanException", <<"meson.install">>)
              /\ UNCHANGED <<pkgInclude, pkgLib>>
         ELSE /\ pkgInclude' = CopyHeaders(srcDir, Install(installPlan, pkgInclude))
              /\ pkgLib' = TRUE
              /\ Called("package", "ok", <<"meson.install", "copy">>)
    /\ UNCHANGED <<descriptor, folders, cpp_info, toolchain, builddir, cloneDir,
                   srcDir, installPlan, broken, fetched>>

\* a package_info() that appends to includedirs
PackageInfoAddsIncludeDir ==
    [cpp_info EXCEPT !.libs = <<"fossil_jellyfish">>,
                     !.includedirs = Append(cpp_info.includedirs, "include")]

\* a package_info() that appends to libs
PackageInfoAppends == [cpp_info EXCEPT !.libs = Append(cpp_info.libs, "fossil_jellyfish"),
                                       !.includedirs = <<"include">>]

\* the cpp_info package_info() leaves
PackageInfoValue == [cpp_info EXCEPT !.libs = <<"fossil_jellyfish">>,
                                     !.includedirs = <<"include">>]

PackageInfo ==
    /\ cpp_info' = PackageInfoValue
    /\ Called("package_info", "ok", <<>>)
    /\ UNCHANGED <<descriptor, folders, toolchain, builddir, cloneDir, srcDir,
                   installPlan, pkgInclude, pkgLib, broken, fetched>>

Next ==
    \/ (Layout /\ UNCHANGED listerVars)
    \/ (Generate /\ UNCHANGED listerVars)
    \/ (Source /\ UNCHANGED listerVars)
    \/ (Build /\ UNCHANGED listerVars)
    \/ (Package /\ UNCHANGED listerVars)
    \/ (PackageInfo /\ UNCHANGED listerVars)

Spec == Init /\ [][Next]_vars

----------------------------------------------------------------------------
(* The test-source lister, wildcard.py *)

\* a path is a sequence of components, a component a tuple of characters
Cases == <<"c", "a", "s", "e", "s">>

\* the files a cases directory of the model may hold, as paths
CandidatePaths ==
    { <<Cases, <<"a", ".", "c">>>>,
      <<Cases, <<"b", ".", "c", "p", "p">>>>,
      <<Cases, <<"c", ".", "t", "x", "t">>>>,
      <<Cases, <<"s", "u", "b">>, <<"d", ".", "c">>>>,
      <<Cases, <<"b", ".", "c">>>>,
      <<Cases, <<"a", ".", "c", "p", "p">>>>,
      <<Cases, <<".", "h", ".", "c">>>> }

\* a set of paths with the directories that hold them
WithParents(P) == UNION { { SubSeq(p, 1, k) : k \in 1..Len(p) } : p \in P }

\* os.scandir(d): the names of the entries directly inside d; glob takes a
\* directory that cannot be listed for one without entries
ListDir(d) ==
    { p[Len(d) + 1] : p \in { q \in fs : Len(q) = Len(d) + 1 /\ SubSeq(q, 1, Len(d)) = d } }

\* glob skips names with a leading dot when the pattern has none
IsHidden(name) == Head(name) = "."

\* a glob with the pattern "cases/*" + suffix + "*": .c matches .cpp names too
GlobNamesTrailingStar(d, suffix) ==
    { n \in ListDir(d) :
        /\ ~IsHidden(n)
        /\ \E k \in 1..Len(n) : EndsWith(SubSeq(n, 1, k), suffix) }

\* the names glob.glob("cases/*" + suffix) matches
GlobNames(d, suffix) ==
    { n \in ListDir(d) : ~IsHidden(n) /\ EndsWith(n, suffix) }

\* os.path.join(d, name) for a one-component d, as a string
JoinPath(d, name) == d[1] \o <<"/">> \o name

\* the script: both globs, concatenated, printed one path a line; each glob
\* yields its matches in the directory's enumeration order, which is any
Wildcard ==
    /\ pc = "start"
    /\ \E cs \in Perms(GlobNames(<<Cases>>, <<".", "c">>)),
          cpps \in Perms(GlobNames(<<Cases>>, <<".", "c", "p", "p">>)) :
            stdout' = [ i \in 1..(Len(cs) + Len(cpps)) |->
                          JoinPath(<<Cases>>, (cs \o cpps)[i]) ]
    /\ pc' = "done"
    /\ UNCHANGED fs

ListerInit ==
    /\ OrchInitFixed
    /\ folders = [source |-> "", build |-> ""]
    /\ srcDir = <<>>
    /\ installPlan = <<>>
    /\ pkgInclude = <<>>
    /\ broken = {}
    /\ fs \in {{}} \cup { WithParents(P \cup {<<Cases>>}) : P \in SUBSET CandidatePaths }
    /\ stdout = <<>>
    /\ pc = "start"

ListerNext == Wildcard /\ UNCHANGED orchVars

ListerSpec == ListerInit /\ [][ListerNext]_vars

----------------------------------------------------------------------------
(* Claims *)

\* what a driver can observe of the recipe and of the directories it writes
Obs == <<descriptor, folders, cpp_info, toolchain, builddir, cloneDir,
         srcDir, pkgInclude, pkgLib>>

\* the step the driver calls before op; layout has none
Predecessor(op) ==
    LET i == CHOOSE k \in 1..Len(Steps) : Steps[k] = op
    IN  IF i = 1 THEN "none" ELSE Steps[i - 1]

\* C1: a lifecycle step called when its predecessor has not returned
\* normally in this run fails with SequenceError and calls no external
\* tool; so does build() called before source() has returned normally.
C1_SequenceEnforced ==
    (lastOp \in StepSet /\ Predecessor(lastOp) \notin completed \cup {"none"})
        => (result = "SequenceError" /\ calls = <<>>)

\* C2: after package() has returned normally, whatever headers the install
\* step placed (none included), every file of code/logic/fossil/ai whose
\* name ends in .h is in <package_folder>/include/fossil/ai, and so is every
\* header the install step placed.
C2_HeaderCopyGuarantee ==
    (lastOp = "package" /\ result = "ok")
        => /\ \A n \in DOMAIN srcDir :
                EndsWith(n, <<".", "h">>) => n \in DOMAIN pkgInclude
           /\ DOMAIN installPlan \subseteq DOMAIN pkgInclude

\* package() returned normally after an install step that placed no header,
\* and a header of the source subpath that only the copy can bring is there
C2_Witness ==
    /\ lastOp = "package"
    /\ result = "ok"
    /\ installPlan = <<>>
    /\ HeaderB \in DOMAIN srcDir
    /\ HeaderB \in DOMAIN pkgInclude

\* C3: package() called right after a package() that returned normally
\* leaves the output directory as that first call left it: same files, same
\* contents.
C3_PackageIdempotent ==
    [][ (lastOp = "package" /\ result = "ok" /\ lastOp' = "package" /\ result' = "ok")
            => (pkgInclude' = pkgInclude /\ pkgLib' = pkgLib) ]_vars

\* package() returned normally twice in a row, over an output directory that
\* held a stale header and with headers to install and to copy
C3_Witness ==
    /\ lastOp = "package"
    /\ result = "ok"
    /\ again
    /\ StaleHeader \in DOMAIN pkgInclude
    /\ HeaderA \in DOMAIN installPlan
    /\ HeaderA \in DOMAIN srcDir

\* C4: every call of source() issues exactly one fetch command, the clone of
\* tag v0.1.4 of the descriptor's url, and no other fetch command is issued
\* in the run.
C4_SingleFetch ==
    LET cmd == "git clone --branch v0.1.4 https://github.com/fossillogic/fossil-jellyfish"
    IN  /\ lastOp = "source" => calls = <<cmd>>
        /\ fetched \subseteq {cmd}
        /\ "source" \in completed => fetched = {cmd}

\* source() was called twice in a row
C4_Witness ==
    /\ lastOp = "source"
    /\ again
    /\ Cardinality(fetched) = 1

\* the paths the lister is to print: cases/<name> for the entries directly
\* inside cases whose name ends in .c or .cpp
ListerExpected ==
    { JoinPath(<<Cases>>, p[2]) :
        p \in { q \in fs : /\ Len(q) = 2
                           /\ q[1] = Cases
                           /\ \/ EndsWith(q[2], <<".", "c">>)
                              \/ EndsWith(q[2], <<".", "c", "p", "p">>) } }

\* the elements of a set of strings in lexicographic order
SortedSeq(S) ==
    CHOOSE q \in Perms(S) : \A i, j \in 1..Cardinality(S) : i < j => StrLess(q[i], q[j])

\* C5: the lister prints exactly the paths cases/<name> of the entries
\* directly inside cases whose name ends in .c or .cpp, in lexicographic
\* order.
C5_ListerSorted ==
    pc = "done" => stdout = SortedSeq(ListerExpected)

\* C6: on a missing cases directory the lister fails with
\* DirectoryNotFoundError; on an empty one it prints nothing and ends
\* normally.
C6_MissingIsNotEmpty ==
    pc \notin {"start", "idle"}
        => IF <<Cases>> \notin fs
             THEN pc = "DirectoryNotFoundError"
             ELSE (ListDir(<<Cases>>) = {} => (pc = "done" /\ stdout = <<>>))

\* C7: once a lifecycle step has failed, no later step of the run calls an
\* external tool: the failed call is not issued again and no other is.
C7_FailureIsTerminal ==
    [][ failed => (calls' = <<>> /\ fetched' = fetched) ]_vars

\* C8 as stated: a lifecycle method called right after a call of the same
\* method that returned normally returns normally too and leaves the state
\* that first call left; source() included.
C8_EveryStepIdempotent ==
    [][ (lastOp' = lastOp /\ result = "ok")
            => (result' = "ok" /\ Obs' = Obs) ]_vars

\* C8 amended: a lifecycle method other than source(), called right after a
\* call of the same method that returned normally, returns normally too and
\* leaves the state that first call left; source() called right after a
\* source() that returned normally fails, its clone target being non-empty,
\* and leaves the state that first call left.
C8_IdempotentExceptSource ==
    [][ (lastOp' = lastOp /\ result = "ok")
            => /\ Obs' = Obs
               /\ result' = IF lastOp = "source" THEN "ConanException" ELSE "ok" ]_vars

\* source() was called right after a source() that returned normally, and
\* failed on the clone target the first call left
C8_Witness ==
    /\ lastOp = "source"
    /\ again
    /\ result = "ConanException"
    /\ "git clone" \notin broken
    /\ cloneDir = "nonempty"

\* C9: once package_info() has been called, whatever was called before and
\* after it, libs is the list of the descriptor's name, fossil_jellyfish,
\* and includedirs is the list of "include".
C9_ConsumerMetadata ==
    "package_info" \in completed
        => /\ cpp_info = [libs |-> <<"fossil_jellyfish">>, includedirs |-> <<"include">>]
           /\ cpp_info.libs = <<descriptor.name>>

\* package_info() was called twice in a row, in a run where a step failed
C9_Witness ==
    /\ lastOp = "package_info"
    /\ again
    /\ failed
    /\ cpp_info.libs = <<"fossil_jellyfish">>

\* C10: no lifecycle method, in any order and any number of times, changes
\* the descriptor: name, version, license, author, url, description, topics,
\* settings, options and the default shared = false stay as the class
\* defines them.
C10_DescriptorReadOnly ==
    /\ descriptor = Descriptor0
    /\ descriptor.name = "fossil_jellyfish"
    /\ descriptor.version = "0.1.4"
    /\ descriptor.license = "MPL-2.0"
    /\ descriptor.default_options.shared = FALSE

\* every lifecycle method has returned normally, one of them twice in a row
C10_Witness ==
    /\ completed = StepSet
    /\ again
    /\ descriptor.version = "0.1.4"

\* C11: layout(), from whatever state and whatever the folders were, leaves
\* the source folder "." and the build folder "builddir", returns normally,
\* calls no external tool and changes nothing else.
C11_LayoutAlwaysSame ==
    [][ lastOp' = "layout"
            => /\ folders' = [source |-> ".", build |-> "builddir"]
               /\ result' = "ok"
               /\ calls' = <<>>
               /\ UNCHANGED <<descriptor, cpp_info, toolchain, builddir, cloneDir,
                              srcDir, installPlan, pkgInclude, pkgLib, fetched>> ]_vars

\* layout() was called last, after package() had returned normally and after a
\* step had failed
C11_Witness ==
    /\ lastOp = "layout"
    /\ "package" \in completed
    /\ failed
    /\ folders = [source |-> ".", build |-> "builddir"]

\* C12: package() runs the install step before the header copy and the copy
\* overwrites: when package() returns normally it has called meson.install
\* and then copy, and every header of include/fossil/ai that is also in
\* code/logic/fossil/ai has the content of the source tree, whatever copy the
\* install step placed; when the install step fails, package() raises with
\* no copy made and include/fossil/ai as it was.
C12_InstallThenOverwrite ==
    [][ lastOp' = "package"
            => IF result' = "ok"
                 THEN /\ calls' = <<"meson.install", "copy">>
                      /\ \A n \in DOMAIN pkgInclude' \cap DOMAIN srcDir :
                            EndsWith(n, <<".", "h">>) => pkgInclude'[n] = srcDir[n]
                 ELSE /\ calls' = <<"meson.install">>
                      /\ pkgInclude' = pkgInclude ]_vars

\* package() returned normally where the install step had placed its own
\* copy of a header of the source tree, and the header has the source's text
C12_Witness ==
    /\ lastOp = "package"
    /\ result = "ok"
    /\ HeaderA \in DOMAIN installPlan
    /\ HeaderA \in DOMAIN srcDir
    /\ installPlan[HeaderA] # srcDir[HeaderA]
    /\ pkgInclude[HeaderA] = srcDir[HeaderA]

\* C13: every call of build() calls meson.configure once and then, only when
\* the configure succeeded, meson.build once; when the configure fails the
\* call raises with meson.build not called and the configure not called
\* again, and the call returns normally only after both.
C13_ConfigureThenBuild ==
    lastOp = "build"
        => /\ calls \in { <<"meson.configure">>, <<"meson.configure", "meson.build">> }
           /\ "meson.configure" \in broken
                  => (calls = <<"meson.configure">> /\ result = "ConanException")
           /\ "meson.configure" \notin broken
                  => calls = <<"meson.configure", "meson.build">>
           /\ result = "ok"
                  => (calls = <<"meson.configure", "meson.build">> /\ builddir = "built")
           /\ result # "ok" => builddir # "built"

\* build() was called where meson.configure fails: it raised after that one
\* call, the build directory untouched
C13_Witness ==
    /\ lastOp = "build"
    /\ "meson.configure" \in broken
    /\ calls = <<"meson.configure">>
    /\ result = "ConanException"
    /\ builddir = "absent"

\* C14: the lister prints the matches of cases/*.c and after them the
\* matches of cases/*.cpp: the printed paths are those of the entries
\* directly inside cases that glob matches, every path ending in .c comes
\* before every path ending in .cpp, and no path is printed twice.
C14_CThenCppNoDuplicates ==
    pc = "done"
        => /\ { stdout[i] : i \in 1..Len(stdout) }
                = { JoinPath(<<Cases>>, n) :
                      n \in { m \in ListDir(<<Cases>>) :
                                /\ Head(m) # "."
                                /\ \/ EndsWith(m, <<".", "c">>)
                                   \/ EndsWith(m, <<".", "c", "p", "p">>) } }
           /\ \A i, j \in 1..Len(stdout) :
                /\ (i # j => stdout[i] # stdout[j])
                /\ (EndsWith(stdout[i], <<".", "c">>)
                      /\ EndsWith(stdout[j], <<".", "c", "p", "p">>)) => i < j

\* the lister printed two .c paths and two .cpp paths
C14_Witness ==
    /\ pc = "done"
    /\ Cardinality({ i \in 1..Len(stdout) : EndsWith(stdout[i], <<".", "c">>) }) = 2
    /\ Cardinality({ i \in 1..Len(stdout) : EndsWith(stdout[i], <<".", "c", "p", "p">>) }) = 2

====
